---- MODULE Spec2Model ----
(***************************************************************************)
(* The message lifecycle of bus1 (ipc/bus1/message.c): creation, binding   *)
(* to a peer's pool slice and a user's quota, installation of handle ids   *)
(* and file descriptors in the receiver, unbinding and destruction.        *)
(*                                                                         *)
(* The quota ledger, the pool, the handle tracker and the transaction      *)
(* layer are collaborators whose code is outside message.c; they are       *)
(* modelled from their documented contracts.  The descriptor table and     *)
(* file reference counts follow the kernel primitives message.c calls.     *)
(***************************************************************************)
EXTENDS Integers, Sequences, FiniteSets, TLC

NULL == "NULL"

\* The messages, users and files of a run.
Msgs == {"m1", "m2"}
Users == {"u1", "u2"}
Files == {"fA", "fB"}

\* Bounds of the model.
MaxBytes == 16
MaxHandles == 2
MaxFds == 3
PoolSize == 48
QuotaBytes == 24
QuotaHandles == 2
QuotaFds == 3
FdTableSize == 4

\* Program constants.
SizeofU64 == 8
SizeofInt == 4
BUS1_OFFSET_INVALID == -1

VARIABLES
    msg,        \* each message: lifecycle state and the fields of struct bus1_message
    ledger,     \* the quota ledger: per user, the charged bytes, handles, fds
    user_ref,   \* reference count of each user object
    pool,       \* the slices allocated in the peer's pool
    mem,        \* per message, what has been written into its slice
    lock,       \* holder of peer_info->lock, or NULL
    call,       \* per message, the call in progress on it
    fdtable,    \* the receiving process's descriptor table
    f_count,    \* reference count of each file
    done        \* per message, what the delivery path has completed on it

vars == <<msg, ledger, user_ref, pool, mem, lock, call, fdtable, f_count, done>>

(***************************************************************************)
(* Helpers                                                                 *)
(***************************************************************************)

ALIGN(x, a) == ((x + a - 1) \div a) * a

NoSlice == [offset |-> BUS1_OFFSET_INVALID, size |-> 0]

NoMessage ==
    [st |-> "none", n_bytes |-> 0, n_handles |-> 0, n_fds |-> 0,
     offset |-> BUS1_OFFSET_INVALID,
     transaction |-> [next |-> NULL, handle |-> NULL, raw_peer |-> NULL],
     user |-> NULL, slice |-> NoSlice, files |-> <<>>]

ZeroCharge == [n_bytes |-> 0, n_handles |-> 0, n_fds |-> 0]

FreeFd == [st |-> "free", file |-> NULL, by |-> NULL]

Fds == 0 .. (FdTableSize - 1)

NoPre ==
    [ledger |-> [u \in Users |-> ZeroCharge], pool |-> {}, msg |-> NoMessage,
     user_ref |-> [u \in Users |-> 1]]

Locked == {"allocate", "deallocate"}

Idle ==
    [op |-> "idle", pc |-> "idle", user |-> NULL, r |-> "OK", i |-> 0,
     fds |-> <<>>, pos |-> 0, offset |-> 0, asked |-> FALSE, released |-> {},
     pre |-> NoPre]

Snapshot(m) ==
    [ledger |-> ledger, pool |-> pool, msg |-> msg[m], user_ref |-> user_ref]

ZeroLedger == [u \in Users |-> ZeroCharge]

\* Componentwise difference of two ledgers.
LedgerDiff(a, b) ==
    [u \in Users |-> [n_bytes |-> a[u].n_bytes - b[u].n_bytes,
                      n_handles |-> a[u].n_handles - b[u].n_handles,
                      n_fds |-> a[u].n_fds - b[u].n_fds]]

LedgerSum(a, b) ==
    [u \in Users |-> [n_bytes |-> a[u].n_bytes + b[u].n_bytes,
                      n_handles |-> a[u].n_handles + b[u].n_handles,
                      n_fds |-> a[u].n_fds + b[u].n_fds]]

\* What has happened to a message so far: the installers that succeeded,
\* whether it was ever bound, whether its last call was an Unbind, the net
\* effect of its Bind and Unbind calls on the ledger and the pool, and the
\* warnings bus1_message_free has printed about it.
NoneDone ==
    [handles |-> FALSE, fds |-> FALSE, bound |-> FALSE, dealloc_last |-> FALSE,
     net |-> [ledger |-> ZeroLedger, slices |-> {}], warned |-> {}]

\* A message is bound when it holds a slice or an accounted user.
IsBound(d) == d.user # NULL \/ d.slice # NoSlice

(***************************************************************************)
(* Collaborators                                                           *)
(***************************************************************************)

\* Resource Accountant: charge(user, bytes, handles, fds) -> Result
QuotaFits(l, u, nb, nh, nf) ==
    /\ l[u].n_bytes + nb <= QuotaBytes
    /\ l[u].n_handles + nh <= QuotaHandles
    /\ l[u].n_fds + nf <= QuotaFds

bus1_user_quota_charge(l, u, nb, nh, nf) ==
    [l EXCEPT ![u] = [n_bytes |-> @.n_bytes + nb,
                      n_handles |-> @.n_handles + nh,
                      n_fds |-> @.n_fds + nf]]

\* Resource Accountant: discharge(user, bytes, handles, fds)
bus1_user_quota_discharge(l, u, nb, nh, nf) ==
    [l EXCEPT ![u] = [n_bytes |-> @.n_bytes - nb,
                      n_handles |-> @.n_handles - nh,
                      n_fds |-> @.n_fds - nf]]

\* Pool: two slices overlap
Overlap(a, b) ==
    a.offset < b.offset + b.size /\ b.offset < a.offset + a.size

\* Pool: the offsets at which a slice of the given size fits
PoolFits(p, size) ==
    {o \in 0 .. (PoolSize - size) :
        /\ o % 8 = 0
        /\ \A s \in p : ~Overlap([offset |-> o, size |-> size], s)}

\* Pool: alloc(size) -> Slice | Exhausted; the lowest free offset is taken
bus1_pool_alloc(p, size) ==
    IF PoolFits(p, size) = {} THEN NoSlice
    ELSE [offset |-> CHOOSE o \in PoolFits(p, size) :
                        \A o2 \in PoolFits(p, size) : o <= o2,
          size |-> size]

\* Pool: release(Slice)
bus1_pool_release_kernel(p, slice) == p \ {slice}

(***************************************************************************)
(* bus1_message_new                                                        *)
(***************************************************************************)

NBytes == {0, 5, MaxBytes}

\* The workload: one message of any shape alone, or several small messages.
SmallShape(nb, nh, nf) == nb = MaxBytes /\ nh = nf /\ nf <= 1

Workload(m, nb, nh, nf) ==
    \A o \in Msgs \ {m} :
        msg[o].st # "none" =>
            /\ SmallShape(nb, nh, nf)
            /\ SmallShape(msg[o].n_bytes, msg[o].n_handles, msg[o].n_fds)

bus1_message_new(m, n_bytes, n_files, n_handles) ==
    /\ msg[m].st = "none"
    /\ msg' = [msg EXCEPT ![m] =
                 [st |-> "live",
                  n_bytes |-> n_bytes,
                  n_handles |-> n_handles,
                  n_fds |-> n_files,
                  offset |-> BUS1_OFFSET_INVALID,
                  transaction |-> [next |-> NULL, handle |-> NULL,
                                   raw_peer |-> NULL],
                  user |-> NULL,
                  slice |-> NoSlice,
                  files |-> [i \in 1 .. n_files |-> NULL]]]
    /\ UNCHANGED <<ledger, user_ref, pool, mem, lock, call, fdtable, f_count, done>>

Create(m) ==
    \E nb \in NBytes, nh \in 0 .. MaxHandles, nf \in 0 .. MaxFds :
        /\ Workload(m, nb, nh, nf)
        /\ bus1_message_new(m, nb, nf, nh)

(***************************************************************************)
(* Transaction layer: files are imported into the slots in order; an       *)
(* import that stops early leaves the remaining slots empty.               *)
(***************************************************************************)

FirstEmpty(d) ==
    CHOOSE i \in 1 .. d.n_fds :
        d.files[i] = NULL /\ \A j \in 1 .. (i - 1) : d.files[j] # NULL

Populate(m, f) ==
    /\ msg[m].st = "live"
    /\ call[m].op = "idle"
    /\ ~IsBound(msg[m])
    /\ ~done[m].bound
    /\ \E i \in 1 .. msg[m].n_fds : msg[m].files[i] = NULL
    /\ msg' = [msg EXCEPT ![m].files[FirstEmpty(msg[m])] = f]
    /\ f_count' = [f_count EXCEPT ![f] = @ + 1]
    /\ UNCHANGED <<ledger, user_ref, pool, mem, lock, call, fdtable, done>>

(***************************************************************************)
(* bus1_message_allocate_locked                                            *)
(***************************************************************************)

\* Fault: the check for an existing binding is missing.
Mut_already_bound_never(d) == FALSE

\* message.c:134
already_bound(d) == d.user # NULL \/ d.slice # NoSlice

\* Fault: the descriptor region is left out of the size.
Mut_slice_size_no_fds(d) ==
    ALIGN(d.n_bytes, 8) + ALIGN(d.n_handles * SizeofU64, 8)

\* message.c:145-147
slice_size(d) ==
    ALIGN(d.n_bytes, 8) +
    ALIGN(d.n_handles * SizeofU64, 8) +
    ALIGN(d.n_fds + SizeofInt, 8)

\* Fault: a failed allocation does not discharge.
Mut_alloc_rollback_none(l, u, d) == l

\* message.c:151-154: the ledger after the rollback of a failed allocation
alloc_rollback(l, u, d) ==
    bus1_user_quota_discharge(l, u, d.n_bytes, d.n_handles, d.n_fds)

\* Fault: the user is not stored.
Mut_bind_fields_no_user(d, u, slice) ==
    [d EXCEPT !.slice = slice, !.offset = slice.offset]

\* Fault: the offset of the slice is not stored.
Mut_bind_fields_no_offset(d, u, slice) ==
    [d EXCEPT !.user = u, !.slice = slice]

\* message.c:158-160
bind_fields(d, u, slice) ==
    [d EXCEPT !.user = u, !.slice = slice, !.offset = slice.offset]

\* Fault: the call is made without waiting for the peer lock.
Mut_allocate_locked_charge_unlocked(m, u) ==
    /\ msg[m].st = "live"
    /\ call[m].op = "idle"
    /\ lock' = m
    /\ LET d == msg[m]
           fr == [Idle EXCEPT !.op = "allocate", !.user = u,
                              !.pre = Snapshot(m)]
       IN  IF already_bound(d)
           THEN /\ call' = [call EXCEPT ![m] =
                              [fr EXCEPT !.pc = "ret", !.r = "EINVAL"]]
                /\ UNCHANGED ledger
           ELSE IF ~QuotaFits(ledger, u, d.n_bytes, d.n_handles, d.n_fds)
           THEN /\ call' = [call EXCEPT ![m] =
                              [fr EXCEPT !.pc = "ret", !.r = "QuotaExceeded"]]
                /\ UNCHANGED ledger
           ELSE /\ call' = [call EXCEPT ![m] = [fr EXCEPT !.pc = "slice"]]
                /\ ledger' = bus1_user_quota_charge(ledger, u, d.n_bytes,
                                                    d.n_handles, d.n_fds)
    /\ UNCHANGED <<msg, user_ref, pool, mem, fdtable, f_count, done>>

\* The caller takes the peer lock and calls; lines 132-142.
bus1_message_allocate_locked_charge(m, u) ==
    /\ msg[m].st = "live"
    /\ call[m].op = "idle"
    /\ lock = NULL
    /\ lock' = m
    /\ LET d == msg[m]
           fr == [Idle EXCEPT !.op = "allocate", !.user = u,
                              !.pre = Snapshot(m)]
       IN  IF already_bound(d)
           THEN /\ call' = [call EXCEPT ![m] =
                              [fr EXCEPT !.pc = "ret", !.r = "EINVAL"]]
                /\ UNCHANGED ledger
           ELSE IF ~QuotaFits(ledger, u, d.n_bytes, d.n_handles, d.n_fds)
           THEN /\ call' = [call EXCEPT ![m] =
                              [fr EXCEPT !.pc = "ret", !.r = "QuotaExceeded"]]
                /\ UNCHANGED ledger
           ELSE /\ call' = [call EXCEPT ![m] = [fr EXCEPT !.pc = "slice"]]
                /\ ledger' = bus1_user_quota_charge(ledger, u, d.n_bytes,
                                                    d.n_handles, d.n_fds)
    /\ UNCHANGED <<msg, user_ref, pool, mem, fdtable, f_count, done>>

\* Lines 144-161.
bus1_message_allocate_locked_slice(m) ==
    /\ call[m].op = "allocate"
    /\ call[m].pc = "slice"
    /\ LET d == msg[m]
           u == call[m].user
           slice == bus1_pool_alloc(pool, slice_size(d))
       IN  IF slice = NoSlice
           THEN /\ ledger' = alloc_rollback(ledger, u, d)
                /\ call' = [call EXCEPT ![m].pc = "ret",
                                        ![m].r = "PoolExhausted",
                                        ![m].asked = TRUE]
                /\ UNCHANGED <<msg, user_ref, pool>>
           ELSE /\ pool' = pool \cup {slice}
                /\ user_ref' = [user_ref EXCEPT ![u] = @ + 1]
                /\ msg' = [msg EXCEPT ![m] = bind_fields(d, u, slice)]
                /\ call' = [call EXCEPT ![m].pc = "ret", ![m].r = "OK",
                                        ![m].asked = TRUE]
                /\ UNCHANGED ledger
    /\ UNCHANGED <<mem, lock, fdtable, f_count, done>>

(***************************************************************************)
(* bus1_message_deallocate_locked                                          *)
(***************************************************************************)

\* message.c:177
holds_slice(d) == d.slice # NoSlice

\* Fault: the descriptors are left charged.
Mut_dealloc_ledger_no_fds(l, d) ==
    bus1_user_quota_discharge(l, d.user, d.n_bytes, d.n_handles, 0)

\* message.c:178-181
dealloc_ledger(l, d) ==
    bus1_user_quota_discharge(l, d.user, d.n_bytes, d.n_handles, d.n_fds)

\* Fault: the slice is not given back to the pool.
Mut_dealloc_pool_keeps(p, d) == p

\* message.c:182-183
dealloc_pool(p, d) == bus1_pool_release_kernel(p, d.slice)

\* Fault: the slice pointer is not cleared after the release.
Mut_unbind_fields_keeps_slice(d) == [d EXCEPT !.user = NULL]

\* message.c:182-186: the slice and the user are cleared
unbind_fields(d) == [d EXCEPT !.slice = NoSlice, !.user = NULL]

\* The caller takes the peer lock and calls; the whole body runs under it.
bus1_message_deallocate_locked(m) ==
    /\ msg[m].st = "live"
    /\ call[m].op = "idle"
    /\ lock = NULL
    /\ lock' = m
    /\ LET d == msg[m]
       IN  /\ IF holds_slice(d)
              THEN /\ ledger' = dealloc_ledger(ledger, d)
                   /\ pool' = dealloc_pool(pool, d)
                   /\ mem' = [mem EXCEPT ![m] = {}]
              ELSE UNCHANGED <<ledger, pool, mem>>
           /\ user_ref' = IF d.user = NULL THEN user_ref
                          ELSE [user_ref EXCEPT ![d.user] = @ - 1]
           /\ msg' = [msg EXCEPT ![m] = unbind_fields(d)]
    /\ call' = [call EXCEPT ![m] =
                  [Idle EXCEPT !.op = "deallocate", !.pc = "ret",
                               !.pre = Snapshot(m)]]
    /\ UNCHANGED <<fdtable, f_count, done>>

(***************************************************************************)
(* Pool writes.  A cell records what a write left at an offset of the      *)
(* message's slice; a later write replaces the cells it covers.            *)
(***************************************************************************)

CellsOverlap(a, b) == a.off < b.off + b.len /\ b.off < a.off + a.len

\* Pool: write(Slice, offset, bytes), when it succeeds
bus1_pool_write_kvec(cells, new) ==
    {c \in cells : \A n \in new : ~CellsOverlap(c, n)} \cup new

(***************************************************************************)
(* bus1_message_install_handles                                            *)
(***************************************************************************)

\* message.c:207
handles_offset(d) == ALIGN(d.n_bytes, 8)

\* message.c:213-216: the ids of one chunk, laid out from the running offset
handles_vec(offset, pos, n) ==
    {[off |-> offset + (k - 1) * SizeofU64, len |-> SizeofU64,
      val |-> <<"id", pos + k>>] : k \in 1 .. n}

\* Fault: the running offset does not advance.
Mut_handles_advance_stuck(offset, n) == offset

\* message.c:220
handles_advance(offset, n) == offset + n * SizeofU64

\* Lines 207-209; the delivery path calls it on a bound message.
bus1_message_install_handles_begin(m) ==
    /\ msg[m].st = "live"
    /\ call[m].op = "idle"
    /\ holds_slice(msg[m])
    /\ ~done[m].handles
    /\ call' = [call EXCEPT ![m] =
                  [Idle EXCEPT !.op = "install_handles", !.pc = "walk",
                               !.offset = handles_offset(msg[m]),
                               !.pos = 0]]
    /\ UNCHANGED <<msg, ledger, user_ref, pool, mem, lock, fdtable, f_count, done>>

\* Lines 211-223: one turn of the loop.  The tracker hands out the next
\* chunk, of any non-zero length up to what remains, or 0 at the end.
bus1_message_install_handles_walk(m) ==
    /\ call[m].op = "install_handles"
    /\ call[m].pc = "walk"
    /\ LET d == msg[m]
           fr == call[m]
       IN  IF fr.pos = d.n_handles
           THEN /\ call' = [call EXCEPT ![m].pc = "ret", ![m].r = "OK"]
                /\ UNCHANGED mem
           ELSE \E n \in 1 .. (d.n_handles - fr.pos) :
                   \/ /\ mem' = [mem EXCEPT ![m] =
                                   bus1_pool_write_kvec(@,
                                       handles_vec(fr.offset, fr.pos, n))]
                      /\ call' = [call EXCEPT
                                    ![m].offset = handles_advance(fr.offset, n),
                                    ![m].pos = fr.pos + n]
                   \/ /\ call' = [call EXCEPT ![m].pc = "ret",
                                              ![m].r = "WriteFailure"]
                      /\ UNCHANGED mem
    /\ UNCHANGED <<msg, ledger, user_ref, pool, lock, fdtable, f_count, done>>

(***************************************************************************)
(* bus1_message_install_fds                                                *)
(***************************************************************************)

FreeFds == {fd \in Fds : fdtable[fd].st = "free"}

\* get_unused_fd_flags: the lowest free descriptor
get_unused_fd_flags == CHOOSE fd \in FreeFds : \A o \in FreeFds : fd <= o

\* put_unused_fd on each descriptor of a set
put_unused_fds(t, S) == [fd \in Fds |-> IF fd \in S THEN FreeFd ELSE t[fd]]

\* Fault: the unwinding loop stops one descriptor short.
Mut_reserve_unwind_short(fds, i) == {fds[k] : k \in 2 .. i}

\* message.c:250-251: the descriptors released when reservation i fails
reserve_unwind(fds, i) == {fds[k] : k \in 1 .. i}

\* message.c:275-276: the descriptors released when the pool write fails
write_unwind(fds, d) == {fds[k] : k \in 1 .. d.n_fds}

\* Fault: the payload length is not aligned.
Mut_fds_offset_unaligned(d) == d.n_bytes + ALIGN(d.n_handles * SizeofU64, 8)

\* message.c:260-261
fds_offset(d) == ALIGN(d.n_bytes, 8) + ALIGN(d.n_handles * SizeofU64, 8)

\* message.c:258-259: the descriptor numbers, laid out from the offset
fds_vec(offset, fds, d) ==
    {[off |-> offset + (k - 1) * SizeofInt, len |-> SizeofInt,
      val |-> <<"fd", fds[k]>>] : k \in 1 .. d.n_fds}

\* message.c:268-269: descriptor fds[k] is bound to files[k]
fd_install(t, m, fds, d, upto) ==
    [fd \in Fds |->
        IF \E k \in 1 .. upto : fds[k] = fd
        THEN [st |-> "installed",
              file |-> d.files[CHOOSE k \in 1 .. upto : fds[k] = fd],
              by |-> m]
        ELSE t[fd]]

\* Fault: no reference is taken for the descriptor table.
Mut_get_file_none(fc, d, upto) == fc

\* message.c:269: one get_file per installed descriptor
get_file(fc, d, upto) ==
    [f \in Files |->
        fc[f] + Cardinality({k \in 1 .. upto : d.files[k] = f})]

\* Lines 243-245; the delivery path calls it on a bound message.
bus1_message_install_fds_begin(m) ==
    /\ msg[m].st = "live"
    /\ call[m].op = "idle"
    /\ holds_slice(msg[m])
    /\ ~done[m].fds
    /\ \/ call' = [call EXCEPT ![m] =
                     [Idle EXCEPT !.op = "install_fds", !.pc = "reserve"]]
       \/ call' = [call EXCEPT ![m] =
                     [Idle EXCEPT !.op = "install_fds", !.pc = "ret",
                                  !.r = "ENOMEM"]]
    /\ UNCHANGED <<msg, ledger, user_ref, pool, mem, lock, fdtable, f_count, done>>

\* Lines 247-256: one turn of the reservation loop.
bus1_message_install_fds_reserve(m) ==
    /\ call[m].op = "install_fds"
    /\ call[m].pc = "reserve"
    /\ call[m].i < msg[m].n_fds
    /\ LET fr == call[m]
       IN  \/ /\ FreeFds # {}
              /\ fdtable' = [fdtable EXCEPT ![get_unused_fd_flags] =
                               [st |-> "reserved", file |-> NULL, by |-> m]]
              /\ call' = [call EXCEPT
                            ![m].fds = Append(fr.fds, get_unused_fd_flags),
                            ![m].i = fr.i + 1]
           \/ /\ fdtable' = put_unused_fds(fdtable, reserve_unwind(fr.fds, fr.i))
              /\ call' = [call EXCEPT
                            ![m].pc = "ret",
                            ![m].r = IF FreeFds = {} THEN "EMFILE" ELSE "ENOMEM",
                            ![m].released = reserve_unwind(fr.fds, fr.i)]
    /\ UNCHANGED <<msg, ledger, user_ref, pool, mem, lock, f_count, done>>

\* Fault: the error path of the pool write also gives the slice back.
Mut_install_fds_write_unbinds(m) ==
    /\ call[m].op = "install_fds"
    /\ call[m].pc = "reserve"
    /\ call[m].i = msg[m].n_fds
    /\ LET fr == call[m]
           d == msg[m]
       IN  \/ /\ mem' = [mem EXCEPT ![m] =
                           bus1_pool_write_kvec(@,
                               fds_vec(fds_offset(d), fr.fds, d))]
              /\ call' = [call EXCEPT ![m].pc = "install",
                                      ![m].offset = fds_offset(d)]
              /\ UNCHANGED <<fdtable, msg, pool>>
           \/ /\ fdtable' = put_unused_fds(fdtable, write_unwind(fr.fds, d))
              /\ call' = [call EXCEPT ![m].pc = "ret",
                                      ![m].r = "WriteFailure",
                                      ![m].offset = fds_offset(d),
                                      ![m].released = write_unwind(fr.fds, d)]
              /\ pool' = bus1_pool_release_kernel(pool, d.slice)
              /\ msg' = [msg EXCEPT ![m].slice = NoSlice]
              /\ UNCHANGED mem
    /\ UNCHANGED <<ledger, user_ref, lock, f_count, done>>

\* Fault: a failed pool write is ignored and the descriptors are installed.
Mut_install_fds_write_ignored(m) ==
    /\ call[m].op = "install_fds"
    /\ call[m].pc = "reserve"
    /\ call[m].i = msg[m].n_fds
    /\ LET fr == call[m]
           d == msg[m]
       IN  \/ /\ mem' = [mem EXCEPT ![m] =
                           bus1_pool_write_kvec(@,
                               fds_vec(fds_offset(d), fr.fds, d))]
              /\ call' = [call EXCEPT ![m].pc = "install",
                                      ![m].offset = fds_offset(d)]
              /\ UNCHANGED fdtable
           \/ /\ call' = [call EXCEPT ![m].pc = "install",
                                      ![m].offset = fds_offset(d)]
              /\ UNCHANGED <<mem, fdtable>>
    /\ UNCHANGED <<msg, ledger, user_ref, pool, lock, f_count, done>>

\* Lines 258-266 and 274-278: the pool write, and the unwinding if it fails.
bus1_message_install_fds_write(m) ==
    /\ call[m].op = "install_fds"
    /\ call[m].pc = "reserve"
    /\ call[m].i = msg[m].n_fds
    /\ LET fr == call[m]
           d == msg[m]
       IN  \/ /\ mem' = [mem EXCEPT ![m] =
                           bus1_pool_write_kvec(@,
                               fds_vec(fds_offset(d), fr.fds, d))]
              /\ call' = [call EXCEPT ![m].pc = "install",
                                      ![m].offset = fds_offset(d)]
              /\ UNCHANGED fdtable
           \/ /\ fdtable' = put_unused_fds(fdtable, write_unwind(fr.fds, d))
              /\ call' = [call EXCEPT ![m].pc = "ret",
                                      ![m].r = "WriteFailure",
                                      ![m].offset = fds_offset(d),
                                      ![m].released = write_unwind(fr.fds, d)]
              /\ UNCHANGED mem
    /\ UNCHANGED <<msg, ledger, user_ref, pool, lock, f_count, done>>

\* The slots get_file can be applied to: those before the first empty one.
Installable(d) ==
    IF \A k \in 1 .. d.n_fds : d.files[k] # NULL THEN d.n_fds
    ELSE (CHOOSE k \in 1 .. d.n_fds :
              d.files[k] = NULL /\ \A j \in 1 .. (k - 1) : d.files[j] # NULL) - 1

\* Lines 268-272.  get_file on an empty slot dereferences a null pointer:
\* the kernel thread dies in the loop and the call never returns.
bus1_message_install_fds_install(m) ==
    /\ call[m].op = "install_fds"
    /\ call[m].pc = "install"
    /\ LET fr == call[m]
           d == msg[m]
           upto == Installable(d)
       IN  /\ fdtable' = fd_install(fdtable, m, fr.fds, d, upto)
           /\ f_count' = get_file(f_count, d, upto)
           /\ call' = IF upto = d.n_fds
                      THEN [call EXCEPT ![m].pc = "ret", ![m].r = "OK"]
                      ELSE [call EXCEPT ![m].pc = "oops"]
    /\ UNCHANGED <<msg, ledger, user_ref, pool, mem, lock, done>>

(***************************************************************************)
(* Return to the caller, which drops the peer lock if it took it.          *)
(***************************************************************************)

Return(m) ==
    /\ call[m].pc = "ret"
    /\ call' = [call EXCEPT ![m] = Idle]
    /\ lock' = IF lock = m THEN NULL ELSE lock
    /\ done' = [done EXCEPT
                  ![m].dealloc_last = (call[m].op = "deallocate"),
                  ![m].bound = @ \/ (call[m].op = "allocate"
                                     /\ call[m].r = "OK"),
                  ![m].handles = @ \/ (call[m].op = "install_handles"
                                       /\ call[m].r = "OK"),
                  ![m].fds = @ \/ (call[m].op = "install_fds"
                                   /\ call[m].r = "OK"),
                  ![m].net = IF call[m].op \in Locked
                             THEN [ledger |->
                                     LedgerSum(@.ledger,
                                         LedgerDiff(ledger, call[m].pre.ledger)),
                                   slices |->
                                     (@.slices \cup (pool \ call[m].pre.pool))
                                         \ (call[m].pre.pool \ pool)]
                             ELSE @]
    /\ UNCHANGED <<msg, ledger, user_ref, pool, mem, fdtable, f_count>>

(***************************************************************************)
(* bus1_message_free                                                       *)
(***************************************************************************)

\* Fault: the loop starts at the second slot.
Mut_free_fput_skips_first(fc, d) ==
    [f \in Files |->
        fc[f] - Cardinality({i \in 2 .. d.n_fds : d.files[i] = f})]

\* message.c:101-103: one fput per non-empty slot
free_fput(fc, d) ==
    [f \in Files |->
        fc[f] - Cardinality({i \in 1 .. d.n_fds : d.files[i] = f})]

\* Fault: a slice still held goes unnoticed.
Mut_free_warns_no_slice(d) ==
    {w \in {"user", "raw_peer", "handle", "next"} :
        \/ w = "user" /\ d.user # NULL
        \/ w = "raw_peer" /\ d.transaction.raw_peer # NULL
        \/ w = "handle" /\ d.transaction.handle # NULL
        \/ w = "next" /\ d.transaction.next # NULL}

\* message.c:95-99: the WARN_ONs that fire
free_warns(d) ==
    {w \in {"slice", "user", "raw_peer", "handle", "next"} :
        \/ w = "slice" /\ d.slice # NoSlice
        \/ w = "user" /\ d.user # NULL
        \/ w = "raw_peer" /\ d.transaction.raw_peer # NULL
        \/ w = "handle" /\ d.transaction.handle # NULL
        \/ w = "next" /\ d.transaction.next # NULL}

\* Fault: a binding still in place is undone on the way.
Mut_bus1_message_free_unbinds(m) ==
    /\ msg[m].st = "live"
    /\ call[m].op = "idle"
    /\ f_count' = free_fput(f_count, msg[m])
    /\ msg' = [msg EXCEPT ![m] = [unbind_fields(@) EXCEPT !.st = "freed"]]
    /\ ledger' = IF holds_slice(msg[m])
                 THEN dealloc_ledger(ledger, msg[m]) ELSE ledger
    /\ pool' = IF holds_slice(msg[m])
               THEN dealloc_pool(pool, msg[m]) ELSE pool
    /\ done' = [done EXCEPT ![m].warned = free_warns(msg[m])]
    /\ UNCHANGED <<user_ref, mem, lock, call, fdtable>>

\* Lines 88-110.  The warnings are printed and the message is freed all
\* the same, with whatever it still points to.
bus1_message_free(m) ==
    /\ msg[m].st = "live"
    /\ call[m].op = "idle"
    /\ f_count' = free_fput(f_count, msg[m])
    /\ msg' = [msg EXCEPT ![m].st = "freed"]
    /\ done' = [done EXCEPT ![m].warned = free_warns(msg[m])]
    /\ UNCHANGED <<ledger, user_ref, pool, mem, lock, call, fdtable>>

\* The caller has undone the binding and cleared the transaction links.
Destroy(m) ==
    /\ ~IsBound(msg[m])
    /\ msg[m].transaction = NoMessage.transaction
    /\ bus1_message_free(m)

(***************************************************************************)
(* Specification                                                           *)
(***************************************************************************)

Init ==
    /\ msg = [m \in Msgs |-> NoMessage]
    /\ ledger = [u \in Users |-> ZeroCharge]
    /\ user_ref = [u \in Users |-> 1]
    /\ pool = {}
    /\ mem = [m \in Msgs |-> {}]
    /\ lock = NULL
    /\ call = [m \in Msgs |-> Idle]
    /\ fdtable = [fd \in Fds |-> FreeFd]
    /\ f_count = [f \in Files |-> 0]
    /\ done = [m \in Msgs |-> NoneDone]

Next ==
    \E m \in Msgs :
        \/ Create(m)
        \/ \E f \in Files : Populate(m, f)
        \/ \E u \in Users : bus1_message_allocate_locked_charge(m, u)
        \/ bus1_message_allocate_locked_slice(m)
        \/ bus1_message_deallocate_locked(m)
        \/ bus1_message_install_handles_begin(m)
        \/ bus1_message_install_handles_walk(m)
        \/ bus1_message_install_fds_begin(m)
        \/ bus1_message_install_fds_reserve(m)
        \/ bus1_message_install_fds_write(m)
        \/ bus1_message_install_fds_install(m)
        \/ Return(m)
        \/ Destroy(m)

Spec == Init /\ [][Next]_vars

(***************************************************************************)
(* A caller that does not keep to the contract of bus1_message_free: the   *)
(* transaction layer links the message into a transaction, and the message *)
(* is freed as it is, bound or linked.  One message is enough.             *)
(***************************************************************************)

Links == {"next", "handle", "raw_peer"}

\* The transaction layer sets one of the links of a message in flight.
Link(m, k) ==
    /\ msg[m].st = "live"
    /\ call[m].op = "idle"
    /\ msg[m].transaction[k] = NULL
    /\ msg' = [msg EXCEPT ![m].transaction[k] = "set"]
    /\ UNCHANGED <<ledger, user_ref, pool, mem, lock, call, fdtable, f_count, done>>

\* The transaction layer clears a link once the transaction is done.
Unlink(m, k) ==
    /\ msg[m].st = "live"
    /\ call[m].op = "idle"
    /\ msg[m].transaction[k] # NULL
    /\ msg' = [msg EXCEPT ![m].transaction[k] = NULL]
    /\ UNCHANGED <<ledger, user_ref, pool, mem, lock, call, fdtable, f_count, done>>

Misused == {"m1"}

NextMisuse ==
    \E m \in Misused :
        \/ Create(m)
        \/ \E f \in Files : Populate(m, f)
        \/ \E k \in Links : Link(m, k)
        \/ \E k \in Links : Unlink(m, k)
        \/ \E u \in Users : bus1_message_allocate_locked_charge(m, u)
        \/ bus1_message_allocate_locked_slice(m)
        \/ bus1_message_deallocate_locked(m)
        \/ bus1_message_install_handles_begin(m)
        \/ bus1_message_install_handles_walk(m)
        \/ bus1_message_install_fds_begin(m)
        \/ bus1_message_install_fds_reserve(m)
        \/ bus1_message_install_fds_write(m)
        \/ bus1_message_install_fds_install(m)
        \/ Return(m)
        \/ bus1_message_free(m)

SpecMisuse == Init /\ [][NextMisuse]_vars

(***************************************************************************)
(* Properties                                                              *)
(***************************************************************************)

RECURSIVE SumOf(_, _)
SumOf(S, field) ==
    IF S = {} THEN 0
    ELSE LET m == CHOOSE x \in S : TRUE
         IN  msg[m][field] + SumOf(S \ {m}, field)

Live == {m \in Msgs : msg[m].st = "live"}
BoundWith(u) == {m \in Live : msg[m].user = u}
Holding == {m \in Live : msg[m].slice # NoSlice}

\* A Bind that has charged and not yet allocated is in progress.
BindInProgress == \E m \in Msgs : call[m].pc = "slice"

AtRet(m, op) == call[m].op = op /\ call[m].pc = "ret"

\* C1: between operations, each user's ledger is the sum of the counts of
\* the messages bound with that user, the pool's slices are exactly the
\* slices of the bound messages, one slice per message, and a message is
\* charged if and only if it holds a slice.
C1_Conservation ==
    ~BindInProgress =>
        /\ \A u \in Users :
              ledger[u] = [n_bytes |-> SumOf(BoundWith(u), "n_bytes"),
                           n_handles |-> SumOf(BoundWith(u), "n_handles"),
                           n_fds |-> SumOf(BoundWith(u), "n_fds")]
        /\ pool = {msg[m].slice : m \in Holding}
        /\ Cardinality(pool) = Cardinality(Holding)
        /\ \A m \in Live : (msg[m].user # NULL) <=> (msg[m].slice # NoSlice)

\* Two messages are bound at once, one of them bound again after an
\* Unbind, and InstallFds has succeeded on one.
C1_Witness ==
    /\ ~BindInProgress
    /\ Cardinality(Holding) = 2
    /\ \E m \in Msgs : done[m].fds
    /\ \E m \in Msgs : done[m].bound /\ done[m].dealloc_last

\* C2: a message's slice is set if and only if its accounted user is set;
\* both are set when Bind has succeeded, both are null for a message that
\* was never bound and when Unbind returns.
C2_Paired ==
    \A m \in Live :
        /\ (msg[m].slice # NoSlice) <=> (msg[m].user # NULL)
        /\ (AtRet(m, "allocate") /\ call[m].r = "OK") =>
              msg[m].slice # NoSlice /\ msg[m].user = call[m].user
        /\ (~done[m].bound /\ ~(AtRet(m, "allocate") /\ call[m].r = "OK")) =>
              msg[m].slice = NoSlice /\ msg[m].user = NULL
        /\ AtRet(m, "deallocate") =>
              msg[m].slice = NoSlice /\ msg[m].user = NULL

\* A Bind succeeds on a message that was bound and unbound before.
C2_Witness ==
    \E m \in Live :
        /\ AtRet(m, "allocate") /\ call[m].r = "OK"
        /\ done[m].bound /\ done[m].dealloc_last

\* C3: when Bind returns QuotaExceeded or PoolExhausted the ledger, the pool
\* and the message are as they were at the call, the message is unbound,
\* and on QuotaExceeded the pool was not asked for a slice.
C3_FailedBind ==
    \A m \in Msgs :
        (AtRet(m, "allocate") /\ call[m].r \in {"QuotaExceeded", "PoolExhausted"}) =>
            /\ ledger = call[m].pre.ledger
            /\ pool = call[m].pre.pool
            /\ msg[m] = call[m].pre.msg
            /\ msg[m].slice = NoSlice /\ msg[m].user = NULL
            /\ call[m].r = "QuotaExceeded" => ~call[m].asked
            /\ call[m].r = "PoolExhausted" => call[m].asked

\* A Bind fails on the pool after charging a message that carries bytes,
\* a handle and a descriptor, while another message holds a slice.
C3_Witness ==
    \E m \in Msgs :
        /\ AtRet(m, "allocate") /\ call[m].r = "PoolExhausted"
        /\ msg[m].n_fds > 0 /\ msg[m].n_handles > 0 /\ msg[m].n_bytes > 0
        /\ call[m].pre.pool # {}

\* C4: the counts of a bound message are those it was charged for, and
\* when Unbind returns from a bound message it has taken from the ledger
\* exactly what the message's Bind added, user by user, and from the pool
\* exactly the slice Bind added, whatever ran in between.
C4_BindUnbind ==
    \A m \in Live :
        /\ (call[m].op = "idle" /\ msg[m].slice # NoSlice) =>
              /\ done[m].net.slices = {msg[m].slice}
              /\ done[m].net.ledger =
                    [u \in Users |->
                        IF u = msg[m].user
                        THEN [n_bytes |-> msg[m].n_bytes,
                              n_handles |-> msg[m].n_handles,
                              n_fds |-> msg[m].n_fds]
                        ELSE ZeroCharge]
        /\ (AtRet(m, "deallocate") /\ call[m].pre.msg.slice # NoSlice) =>
              /\ LedgerDiff(call[m].pre.ledger, ledger) = done[m].net.ledger
              /\ call[m].pre.pool \ pool = done[m].net.slices
              /\ pool \subseteq call[m].pre.pool
              /\ msg[m].n_bytes = call[m].pre.msg.n_bytes
              /\ msg[m].n_handles = call[m].pre.msg.n_handles
              /\ msg[m].n_fds = call[m].pre.msg.n_fds

\* Unbind returns from a message that was bound with descriptors and on
\* which both installers had succeeded.
C4_Witness ==
    \E m \in Live :
        /\ AtRet(m, "deallocate") /\ call[m].pre.msg.slice # NoSlice
        /\ done[m].handles /\ done[m].fds
        /\ msg[m].n_fds >= 2 /\ msg[m].n_handles >= 1

\* The descriptors of the receiver that a message's InstallFds holds.
Owned(m) == {fd \in Fds : fdtable[fd].st # "free" /\ fdtable[fd].by = m}

\* C5: when InstallFds returns, the descriptors it reserved or installed
\* number 0 on failure and n_fds, all installed, on success; a reservation
\* failing at slot i released exactly the i descriptors reserved so far.
C5_AllOrNothing ==
    \A m \in Live :
        /\ AtRet(m, "install_fds") =>
              /\ call[m].r # "OK" => Owned(m) = {}
              /\ call[m].r = "OK" =>
                    /\ Cardinality(Owned(m)) = msg[m].n_fds
                    /\ \A fd \in Owned(m) : fdtable[fd].st = "installed"
              /\ call[m].r \in {"EMFILE", "ENOMEM"} =>
                    /\ Cardinality(call[m].released) = call[m].i
                    /\ call[m].released = {call[m].fds[k] : k \in 1 .. Len(call[m].fds)}
                    /\ Len(call[m].fds) = call[m].i
              /\ call[m].r = "WriteFailure" =>
                    Cardinality(call[m].released) = msg[m].n_fds
        /\ call[m].op = "idle" =>
              Cardinality(Owned(m)) = IF done[m].fds THEN msg[m].n_fds ELSE 0

\* The third of three reservations fails and two descriptors are released.
C5_Witness ==
    \E m \in Live :
        /\ AtRet(m, "install_fds")
        /\ call[m].r \in {"EMFILE", "ENOMEM"}
        /\ msg[m].n_fds = 3 /\ call[m].i = 2
        /\ Cardinality(call[m].released) = 2

\* C6: the slice of a bound message is at least as large as the layout the
\* installers write, align8(n_bytes) + align8(n_handles * 8) + n_fds * 4,
\* and nothing written into the slice extends past its end.
C6_SliceHoldsLayout ==
    \A m \in Live :
        msg[m].slice # NoSlice =>
            /\ msg[m].slice.size >=
                  ALIGN(msg[m].n_bytes, 8)
                  + ALIGN(msg[m].n_handles * SizeofU64, 8)
                  + msg[m].n_fds * SizeofInt
            /\ \A c \in mem[m] : c.off + c.len <= msg[m].slice.size

\* C7: when Unbind returns the message is unbound; an Unbind of an unbound
\* message leaves the message, the ledger, the pool and the user references
\* as they were; and an Unbind that follows an Unbind finds the message
\* unbound, so the second call changes nothing.
C7_UnbindIdempotent ==
    \A m \in Live :
        AtRet(m, "deallocate") =>
            /\ msg[m].slice = NoSlice /\ msg[m].user = NULL
            /\ call[m].pre.msg.slice = NoSlice =>
                  /\ msg[m] = call[m].pre.msg
                  /\ ledger = call[m].pre.ledger
                  /\ pool = call[m].pre.pool
                  /\ user_ref = call[m].pre.user_ref
            /\ done[m].dealloc_last => call[m].pre.msg.slice = NoSlice

\* A second Unbind in a row returns, on a message that had been bound,
\* while another message is charged.
C7_Witness ==
    \E m \in Live :
        /\ AtRet(m, "deallocate")
        /\ done[m].dealloc_last /\ done[m].bound
        /\ ledger # ZeroLedger

\* C8: Bind returns EINVAL exactly when the message was already bound, and
\* then the ledger, the pool, the user references and the message (slice,
\* user, offset) are as before and the pool was not asked; a message never
\* accounts for more than one slice.
C8_AlreadyBound ==
    \A m \in Live :
        /\ AtRet(m, "allocate") =>
              /\ (call[m].r = "EINVAL") <=> IsBound(call[m].pre.msg)
              /\ call[m].r = "EINVAL" =>
                    /\ msg[m] = call[m].pre.msg
                    /\ ledger = call[m].pre.ledger
                    /\ pool = call[m].pre.pool
                    /\ user_ref = call[m].pre.user_ref
                    /\ ~call[m].asked
        /\ Cardinality(done[m].net.slices) <= 1
        /\ call[m].op = "idle" =>
              done[m].net.slices = {msg[m].slice} \ {NoSlice}

\* A Bind with another user returns EINVAL on a bound message.
C8_Witness ==
    \E m \in Live :
        /\ AtRet(m, "allocate") /\ call[m].r = "EINVAL"
        /\ call[m].user # msg[m].user
        /\ msg[m].slice # NoSlice

InstallerOps == {"install_handles", "install_fds"}

\* A step of an installer call on m, its return included.
InstallerStep(m) ==
    /\ call'[m] # call[m]
    /\ call[m].op \in InstallerOps \/ call'[m].op \in InstallerOps

\* C9: no step of InstallHandles or InstallFds, failing or not, changes the
\* message's slice, user, offset or counts, the ledger, the pool or the
\* user references, and the message is still bound after it.
C9_InstallersKeepBinding ==
    [][\A m \in Msgs :
          InstallerStep(m) =>
              /\ msg'[m] = msg[m]
              /\ ledger' = ledger
              /\ pool' = pool
              /\ user_ref' = user_ref
              /\ msg'[m].slice # NoSlice /\ msg'[m].user # NULL]_vars

\* InstallFds returns a write failure after InstallHandles failed too.
C9_Witness ==
    \E m \in Live :
        /\ AtRet(m, "install_fds") /\ call[m].r = "WriteFailure"
        /\ msg[m].n_fds > 0
        /\ msg[m].slice # NoSlice /\ msg[m].user # NULL
        /\ ~done[m].handles /\ mem[m] # {}

\* References on file f: held in message slots, and in installed descriptors.
HeldIn(m, f) == Cardinality({i \in 1 .. msg[m].n_fds : msg[m].files[i] = f})

RECURSIVE HeldBy(_, _)
HeldBy(S, f) ==
    IF S = {} THEN 0
    ELSE LET m == CHOOSE x \in S : TRUE
         IN  HeldIn(m, f) + HeldBy(S \ {m}, f)

InstalledOn(f) ==
    Cardinality({fd \in Fds : fdtable[fd].st = "installed"
                              /\ fdtable[fd].file = f})

\* C10: a message that was bound and has been destroyed holds no slice and
\* no user, its Bind and Unbind calls have left in total no change to the
\* ledger and the pool, and each file's references are those of the slots
\* of the messages still alive and of the installed descriptors.
C10_Cancellation ==
    /\ \A m \in Msgs :
          (msg[m].st = "freed" /\ done[m].bound) =>
              /\ msg[m].slice = NoSlice /\ msg[m].user = NULL
              /\ done[m].net.ledger = ZeroLedger
              /\ done[m].net.slices = {}
              /\ \A s \in pool : \E o \in Holding : msg[o].slice = s
    /\ \A f \in Files : f_count[f] = HeldBy(Live, f) + InstalledOn(f)

\* A message carrying two different files is destroyed after Bind, both
\* installers and Unbind.
C10_Witness ==
    \E m \in Msgs :
        /\ msg[m].st = "freed" /\ done[m].bound
        /\ done[m].fds /\ done[m].handles
        /\ msg[m].n_fds = 2 /\ msg[m].files[1] # msg[m].files[2]


\* C19 as claimed: payload_offset is the base offset of the held slice when
\* the message is bound and the invalid sentinel whenever it holds no slice.
C19_OffsetTracksBinding ==
    \A m \in Live :
        IF msg[m].slice # NoSlice
        THEN msg[m].offset = msg[m].slice.offset
        ELSE msg[m].offset = BUS1_OFFSET_INVALID

\* C19 amended: payload_offset is the base offset of the held slice when the
\* message is bound, the sentinel as long as the message has never been
\* bound (after Create and after failed Binds), and after Unbind it is
\* still the offset the message had before the Unbind.
C19_OffsetAmended ==
    \A m \in Live :
        /\ msg[m].slice # NoSlice => msg[m].offset = msg[m].slice.offset
        /\ (~done[m].bound /\ msg[m].slice = NoSlice) =>
              msg[m].offset = BUS1_OFFSET_INVALID
        /\ AtRet(m, "deallocate") => msg[m].offset = call[m].pre.msg.offset
        /\ (AtRet(m, "allocate") /\ call[m].r # "OK") =>
              msg[m].offset = call[m].pre.msg.offset

\* An Unbind returns from a message bound at a non-zero offset, which
\* keeps that offset.
C19_Witness ==
    \E m \in Live :
        /\ AtRet(m, "deallocate")
        /\ call[m].pre.msg.slice # NoSlice
        /\ msg[m].slice = NoSlice
        /\ msg[m].offset > 0

\* The byte ranges of the three regions of a message's slice.
PayloadRegion(d) == [off |-> 0, len |-> d.n_bytes]
HandleRegion(d) == [off |-> handles_offset(d), len |-> d.n_handles * SizeofU64]
FdRegion(d) == [off |-> fds_offset(d), len |-> d.n_fds * SizeofInt]

Within(c, r) == r.off <= c.off /\ c.off + c.len <= r.off + r.len

\* C18: the handle-id region starts at align8(n_bytes) and the descriptor
\* region at align8(n_bytes) + align8(n_handles * 8); both starts are
\* multiples of 8, the three regions do not overlap, and every handle id
\* and descriptor number written lies in its own region.
C18_RegionsDisjoint ==
    \A m \in Live :
        LET d == msg[m]
        IN  /\ HandleRegion(d).off = ALIGN(d.n_bytes, 8)
            /\ FdRegion(d).off =
                  ALIGN(d.n_bytes, 8) + ALIGN(d.n_handles * SizeofU64, 8)
            /\ HandleRegion(d).off % 8 = 0
            /\ FdRegion(d).off % 8 = 0
            /\ ~CellsOverlap(PayloadRegion(d), HandleRegion(d))
            /\ ~CellsOverlap(PayloadRegion(d), FdRegion(d))
            /\ ~CellsOverlap(HandleRegion(d), FdRegion(d))
            /\ \A c \in mem[m] :
                  /\ c.val[1] = "id" => Within(c, HandleRegion(d))
                  /\ c.val[1] = "fd" => Within(c, FdRegion(d))
            /\ \A c1, c2 \in mem[m] : c1 # c2 => ~CellsOverlap(c1, c2)

\* Handle ids and descriptor numbers have both been written into the slice
\* of a message whose payload length is not a multiple of 8.
C18_Witness ==
    \E m \in Live :
        /\ msg[m].n_bytes % 8 # 0
        /\ \E c \in mem[m] : c.val[1] = "id"
        /\ \E c \in mem[m] : c.val[1] = "fd"


\* The messages of the end-to-end scenario: Create(n_bytes = 16,
\* n_files = 2, n_handles = 1).
Scenario ==
    {m \in Msgs : /\ msg[m].st # "none"
                  /\ msg[m].n_bytes = 16
                  /\ msg[m].n_handles = 1
                  /\ msg[m].n_fds = 2}

IdCells(m) == {c \in mem[m] : c.val[1] = "id"}
FdCells(m) == {c \in mem[m] : c.val[1] = "fd"}

\* C12 as claimed: the slice that Bind takes for the scenario's message is
\* 40 bytes.
C12_ScenarioForty ==
    \A m \in Scenario : msg[m].slice # NoSlice => msg[m].slice.size = 40

\* C12 amended: for Create(16, 2, 1) the slice is 16 + 8 + 8 = 32 bytes;
\* Bind succeeds when the pool has 32 bytes free and the quota allows 16
\* bytes, 1 handle and 2 descriptors; InstallHandles writes 8 bytes at
\* offset 16; InstallFds reserves 2 descriptors, writes their two 4-byte
\* numbers from offset 24 and binds each to its file; after Unbind and
\* Destroy the message holds no file reference and the ledger and the pool
\* are as before Bind.
C12_Scenario ==
    \A m \in Scenario :
        LET d == msg[m]
            fr == call[m]
        IN  /\ slice_size(d) = 32
            /\ d.slice # NoSlice => d.slice.size = 32
            /\ (AtRet(m, "allocate") /\ ~already_bound(fr.pre.msg)
                  /\ QuotaFits(fr.pre.ledger, fr.user, 16, 1, 2)
                  /\ PoolFits(fr.pre.pool, 32) # {})
               => fr.r = "OK"
            /\ (AtRet(m, "install_handles") /\ fr.r = "OK")
               => IdCells(m) = {[off |-> 16, len |-> 8, val |-> <<"id", 1>>]}
            /\ (fr.op = "install_fds" /\ fr.pc = "install")
               => /\ Len(fr.fds) = 2
                  /\ fr.fds[1] # fr.fds[2]
                  /\ FdCells(m) =
                        {[off |-> 24, len |-> 4, val |-> <<"fd", fr.fds[1]>>],
                         [off |-> 28, len |-> 4, val |-> <<"fd", fr.fds[2]>>]}
            /\ (AtRet(m, "install_fds") /\ fr.r = "OK")
               => \A k \in 1 .. 2 :
                     fdtable[fr.fds[k]] =
                        [st |-> "installed", file |-> d.files[k], by |-> m]
            /\ (d.st = "freed" /\ done[m].bound)
               => /\ done[m].net = NoneDone.net
                  /\ \A f \in Files : f_count[f] = InstalledOn(f)

\* The scenario has run to its end: the message was bound, both installers
\* succeeded, and it has been unbound and destroyed.
C12_Witness ==
    \E m \in Scenario :
        /\ msg[m].st = "freed"
        /\ done[m].bound /\ done[m].handles /\ done[m].fds
        /\ Cardinality(Owned(m)) = 2


\* The descriptors installed by the message's InstallFds that refer to f.
InstalledBy(m, f) ==
    Cardinality({fd \in Fds : /\ fdtable[fd].st = "installed"
                              /\ fdtable[fd].by = m
                              /\ fdtable[fd].file = f})

\* One step of file reference accounting for message m and file f.
C16_Step(m, f) ==
    /\ (call[m].op = "install_fds" /\ call[m].pc = "install"
          /\ call'[m].pc # "install")
       => /\ f_count'[f] - f_count[f] = InstalledBy(m, f)' - InstalledBy(m, f)
          /\ msg'[m].files = msg[m].files
          /\ (call'[m].pc = "ret"
                => /\ call'[m].r = "OK"
                   /\ InstalledBy(m, f)' = HeldIn(m, f)
                   /\ f_count'[f] = f_count[f] + HeldIn(m, f))
    /\ (msg[m].st = "live" /\ msg'[m].st = "freed")
       => /\ f_count'[f] = f_count[f] - HeldIn(m, f)
          /\ InstalledBy(m, f)' = InstalledBy(m, f)
          /\ (done[m].fds
                => /\ InstalledBy(m, f) = HeldIn(m, f)
                   /\ f_count'[f] = HeldBy(Live \ {m}, f) + InstalledOn(f))

\* C16: the install loop of InstallFds takes exactly one reference per
\* descriptor it installs and leaves the message's slots as they are;
\* Destroy drops exactly one reference per non-empty slot and none for an
\* empty one; so once a message whose InstallFds succeeded is destroyed,
\* each file it carried has one reference per descriptor installed for it
\* and none owned by the message.
C16_FileReferences ==
    [][\A m \in Msgs, f \in Files : C16_Step(m, f)]_vars

\* A message carrying a file has been destroyed after a successful
\* InstallFds, and the file's only references are its installed
\* descriptors.
C16_Witness ==
    \E m \in Msgs, f \in Files :
        /\ msg[m].st = "freed"
        /\ done[m].fds
        /\ InstalledBy(m, f) >= 1
        /\ f_count[f] = InstalledBy(m, f)


\* Where id number k of a message belongs in its slice.
IdCell(d, k) ==
    [off |-> ALIGN(d.n_bytes, 8) + 8 * (k - 1), len |-> 8, val |-> <<"id", k>>]

IdRun(d, from, to) == {IdCell(d, k) : k \in from .. to}

\* One step of the walk of InstallHandles on message m.
C17_Step(m) ==
    LET d == msg[m]
        fr == call[m]
        to == call'[m]
    IN  (fr.op = "install_handles" /\ fr.pc = "walk" /\ to # fr)
        => /\ to.pc = "walk"
              => /\ to.pos > fr.pos /\ to.pos <= d.n_handles
                 /\ fr.offset = ALIGN(d.n_bytes, 8) + 8 * fr.pos
                 /\ to.offset = ALIGN(d.n_bytes, 8) + 8 * to.pos
                 /\ mem'[m] = mem[m] \cup IdRun(d, fr.pos + 1, to.pos)
                 /\ IdRun(d, 1, to.pos) \subseteq mem'[m]
           /\ (to.pc = "ret" /\ to.r = "OK")
              => /\ fr.pos = d.n_handles
                 /\ mem'[m] = mem[m]
                 /\ IdCells(m) = IdRun(d, 1, d.n_handles)
                 /\ \A c1, c2 \in IdCells(m) : c1 # c2 => ~CellsOverlap(c1, c2)
           /\ (to.pc = "ret" /\ to.r # "OK")
              => /\ to.r = "WriteFailure"
                 /\ fr.pos < d.n_handles
                 /\ to.pos = fr.pos
                 /\ mem'[m] = mem[m]

\* C17: whatever chunks the tracker hands out, each chunk is written at
\* align8(n_bytes) plus 8 times the number of ids already written, so a
\* successful InstallHandles has filled exactly the bytes from
\* align8(n_bytes) to align8(n_bytes) + 8 * n_handles with the ids in
\* order, without gap or overlap; a chunk whose write fails ends the walk
\* with that error and nothing more is written.
C17_Contiguous == [][\A m \in Msgs : C17_Step(m)]_vars

\* The walk is between two chunks: one of the two ids has been written.
C17_Witness ==
    \E m \in Live :
        /\ call[m].op = "install_handles" /\ call[m].pc = "walk"
        /\ msg[m].n_handles = 2
        /\ call[m].pos = 1
        /\ msg[m].n_bytes % 8 # 0


\* Where descriptor number k of a frame belongs in the message's slice.
FdCell(d, fds, k) ==
    [off |-> ALIGN(d.n_bytes, 8) + ALIGN(d.n_handles * 8, 8) + 4 * (k - 1),
     len |-> 4, val |-> <<"fd", fds[k]>>]

\* The references a file has apart from those of m's installed descriptors.
OtherRefs(m, f) == HeldBy(Live, f) + InstalledOn(f) - InstalledBy(m, f)

\* C14: InstallFds reserves, then writes to the pool, then binds.  While
\* it reserves, and when it returns a failure of the reservation or of
\* the write, none of the message's descriptors is bound to a file and
\* every file has the references it had without this call; the binding
\* and its additional references come only once all n_fds descriptor
\* numbers are in the slice.
C14_ReservePublishBind ==
    \A m \in Msgs :
        LET d == msg[m]
            fr == call[m]
            early == \/ fr.pc = "reserve"
                     \/ fr.pc = "ret" /\ fr.r # "OK"
        IN  fr.op = "install_fds"
            => /\ early
                  => /\ \A fd \in Owned(m) : /\ fdtable[fd].st = "reserved"
                                             /\ fdtable[fd].file = NULL
                     /\ \A f \in Files :
                           /\ InstalledBy(m, f) = 0
                           /\ f_count[f] = OtherRefs(m, f)
               /\ (fr.pc = "ret" /\ fr.r # "OK") => Owned(m) = {}
               /\ (fr.pc \in {"install", "oops"} \/ (fr.pc = "ret" /\ fr.r = "OK"))
                  => /\ Len(fr.fds) = d.n_fds
                     /\ \A k \in 1 .. d.n_fds : FdCell(d, fr.fds, k) \in mem[m]
               /\ (\E fd \in Owned(m) : fdtable[fd].st = "installed")
                  => \A k \in 1 .. d.n_fds : FdCell(d, fr.fds, k) \in mem[m]

\* The pool write of a call that had reserved a descriptor has failed.
C14_Witness ==
    \E m \in Live :
        /\ AtRet(m, "install_fds")
        /\ call[m].r = "WriteFailure"
        /\ Len(call[m].fds) >= 1
        /\ \E f \in Files : HeldIn(m, f) >= 1


\* C15: once the pool write of InstallFds has succeeded, the bind step
\* completes for every message, under-filled ones included: it never
\* stops on an empty file slot, and on return each of the n_fds reserved
\* descriptors is bound to a non-empty file.
C15_BindCannotFail ==
    \A m \in Msgs :
        /\ call[m].pc # "oops"
        /\ (AtRet(m, "install_fds") /\ call[m].r = "OK")
           => \A k \in 1 .. msg[m].n_fds :
                 /\ fdtable[call[m].fds[k]].st = "installed"
                 /\ fdtable[call[m].fds[k]].file # NULL


\* What user u is charged for by bindings that have settled, seen from a
\* call on message m: the counts of the other messages bound with u, and
\* those of m itself if it was bound with u when the call began.
Settled(m, u, field) ==
    SumOf(BoundWith(u) \ {m}, field) +
    (IF call[m].pre.msg.user = u THEN call[m].pre.msg[field] ELSE 0)

SettledLedger(m) ==
    [u \in Users |-> [n_bytes |-> Settled(m, u, "n_bytes"),
                      n_handles |-> Settled(m, u, "n_handles"),
                      n_fds |-> Settled(m, u, "n_fds")]]

\* C20: with every Bind and Unbind made under the peer lock, a Bind holds
\* the lock from its charge to its rollback, the ledger a call finds when
\* it begins holds the charges of settled bindings only, never that of a
\* Bind that is about to fail with PoolExhausted, and a Bind fails with
\* QuotaExceeded only if the message does not fit on top of the settled
\* charges.
C20_TransientCharge ==
    \A m \in Msgs :
        LET fr == call[m]
            d == msg[m]
        IN  /\ fr.op \in Locked
               => /\ lock = m
                  /\ \A o \in Msgs \ {m} : call[o].op \notin Locked
                  /\ fr.pre.ledger = SettledLedger(m)
            /\ (AtRet(m, "allocate") /\ fr.r = "PoolExhausted")
               => ledger = fr.pre.ledger
            /\ (AtRet(m, "allocate") /\ fr.r = "QuotaExceeded")
               => ~QuotaFits(SettledLedger(m), fr.user,
                             d.n_bytes, d.n_handles, d.n_fds)
            /\ lock = NULL => call[m].op \notin Locked

\* A Bind has failed with PoolExhausted and still holds the lock, after a
\* charge that the other thread's message would not have fitted on top of;
\* the other thread waits with its message.
C20_Witness ==
    \E m \in Live, o \in Live :
        /\ o # m
        /\ AtRet(m, "allocate") /\ call[m].r = "PoolExhausted"
        /\ lock = m
        /\ call[o].op = "idle"
        /\ ~QuotaFits(bus1_user_quota_charge(call[m].pre.ledger, call[m].user,
                          msg[m].n_bytes, msg[m].n_handles, msg[m].n_fds),
                      call[m].user,
                      msg[o].n_bytes, msg[o].n_handles, msg[o].n_fds)


Freed == {m \in Msgs : msg[m].st = "freed"}

\* What a message still points to.
Outstanding(d) ==
    {w \in {"slice", "user", "raw_peer", "handle", "next"} :
        \/ w = "slice" /\ d.slice # NoSlice
        \/ w = "user" /\ d.user # NULL
        \/ w \in Links /\ d.transaction[w] # NULL}

\* C11 as claimed: a message that Destroy has freed had no slice, no
\* accounted user and no transaction link, and its Bind and Unbind calls
\* have left no charge and no slice behind.
C11_DestroyedUnbound ==
    \A m \in Freed :
        /\ Outstanding(msg[m]) = {}
        /\ done[m].net = NoneDone.net

\* C11 amended: Destroy frees the message whatever it still points to and
\* warns about exactly the fields among slice, accounted user, next, handle
\* and raw_peer that are still set.  A Destroy without a warning leaves no
\* charge and no slice behind; a Destroy of a message still bound leaves
\* the message's charge on the ledger and its slice in the pool.
C11_DestroyWarns ==
    \A m \in Freed :
        LET d == msg[m]
        IN  /\ done[m].warned = Outstanding(d)
            /\ done[m].warned = {} => done[m].net = NoneDone.net
            /\ d.slice # NoSlice
               => /\ {"slice", "user"} \subseteq done[m].warned
                  /\ d.slice \in pool
                  /\ done[m].net.slices = {d.slice}
                  /\ ledger[d.user].n_bytes >= d.n_bytes
                  /\ ledger[d.user].n_handles >= d.n_handles
                  /\ ledger[d.user].n_fds >= d.n_fds
                  /\ done[m].net.ledger[d.user] =
                        [n_bytes |-> d.n_bytes, n_handles |-> d.n_handles,
                         n_fds |-> d.n_fds]

\* A message has been freed while bound and linked: its slice is still in
\* the pool and its charge on the ledger.
C11_Witness ==
    \E m \in Freed :
        /\ msg[m].slice # NoSlice
        /\ msg[m].transaction.next # NULL
        /\ msg[m].n_bytes > 0
        /\ msg[m].slice \in pool
        /\ ledger[msg[m].user].n_bytes = msg[m].n_bytes

\* One step of Create or Destroy on message m.
C13_Step(m) ==
    LET created == msg[m].st = "none" /\ msg'[m].st = "live"
        destroyed == msg[m].st = "live" /\ msg'[m].st = "freed"
    IN  /\ (created \/ destroyed)
           => /\ ledger' = ledger
              /\ pool' = pool
              /\ user_ref' = user_ref
              /\ mem' = mem
        /\ destroyed
           => /\ msg'[m].slice = msg[m].slice
              /\ msg'[m].user = msg[m].user
              /\ done'[m].net = done[m].net

\* C13: Create and Destroy leave the quota ledger, the user references and
\* the pool as they are, for every shape of message, and Destroy leaves
\* the message's slice and user as it found them: it does not unbind, not
\* even a message that is still bound.
C13_DestroyFrame == [][\A m \in Msgs : C13_Step(m)]_vars

\* A message with the most file slots has been destroyed while bound, with
\* a warning, and its slice is still in the pool.
C13_Witness ==
    \E m \in Freed :
        /\ msg[m].slice # NoSlice
        /\ msg[m].slice \in pool
        /\ msg[m].n_fds = MaxFds
        /\ done[m].warned # {}

====
